---- MODULE Spec2Model ----
(***************************************************************************)
(* Session admission and ordering layer of the multimodal companion       *)
(* gateway:                                                                *)
(*   auth.ts   (src/unnamed/part_000)  HMAC request verification with a    *)
(*             nonce cache and a clock-skew window;                        *)
(*   index.ts  (src/unnamed/part_001)  /create-session, the WebSocket      *)
(*             upgrade handler and the connection registry;                *)
(*   message_handler.ts (src/unnamed/part_002)  the audio segmenter and    *)
(*             the serial task queue of one connection.                    *)
(* Node runs the handlers of auth.ts and index.ts to completion (none of   *)
(* them awaits), so each is one atomic action; the async functions of      *)
(* message_handler.ts are one action per stretch of code between awaits.   *)
(***************************************************************************)
EXTENDS Integers, Sequences, FiniteSets, TLC

VARIABLES
    now,              \* Date.now(), milliseconds
    env,              \* process.env.INWORLD_API_KEY, decoded: configured or not
    nonceTimestamps,  \* auth.ts: Map nonce -> time of acceptance
    last,             \* history: the verifyIncomingRequest call the latest step made,
                      \* and its result (NoCall when that step made none)
    acceptLog,        \* history: per nonce, the calls for which verify returned ok
    uuids,            \* number of uuidv4() values drawn; the next one is uuids + 1
    wsTokens,         \* index.ts: sessionKey -> {token, expiresAt}
    connections,      \* index.ts: key -> {ws?}
    sockets,          \* the WebSockets handed to the 'connection' handler, by id
    lastUp,           \* history: the upgrade request the latest step handled, if any
    lastMsg,          \* history: the inbound message the latest step handled, if any
    redemptions,      \* history: the admissions made through the wsToken path
    vadClient,        \* index.ts: whether the listen callback has assigned it
    sttGraph,         \* index.ts: whether the listen callback has assigned it
    handlers,         \* history: per MessageHandler constructed, the sttGraph and
                      \* vadClient its constructor was given
    \* message_handler.ts: the MessageHandler of one connection
    events,           \* handleMessage calls so far; call i draws interactionId i
    pendingVad,       \* audio batches whose detectVoiceActivity call is pending
    isCapturingSpeech,
    pauseDuration,
    speechBuffer,     \* the batches pushed, in order (a batch: event id, samples)
    processingQueue,
    isProcessing,
    inflight,         \* tasks called by a drain loop whose await has not resumed
    STT_ACTIVE_EXECUTIONS,
    IMAGECHAT_ACTIVE_EXECUTIONS,
    imageChatExecutor,
    imageChatCurrentVoiceId,
    builds,           \* history: image-chat executors built so far
    tornDown,         \* history: the executors ensureImageChatExecutor tore down
    wsSendThrows,     \* whether a call of send(), that is ws.send, throws
    sent,             \* history: the events send() passed on, in order
    executions,       \* history: the tasks whose executor.start resolved
    closedExecutions, \* history: the tasks whose execution closeExecution was
                      \* called for, one entry per call
    received,         \* history: the samples of the audio events handled
    classified,       \* history: of these, the samples given to the classifier
    enqueued,         \* history: the tasks passed to addToQueue, in order
    started,          \* history: the tasks a drain loop called, in order
    applied,          \* history: the inbound events that changed the segmenter or
                      \* the queue, in the order they did
    failures,         \* history: the failures inside queued tasks
    unhandled,        \* history: the handleMessage calls whose promise rejected
    fed,              \* history: samples pushed since capture started
    fedVoice,         \* history: of these, the samples of voice-present batches
    lastH,            \* history: the segmenter step the latest step made, if any
    lastStart,        \* history: the task the latest step started, if any
    lastDrain         \* history: the settled task the latest step resumed from

authVars == <<now, env, nonceTimestamps, last, acceptLog>>
gatewayVars == <<uuids, wsTokens, connections, sockets, lastUp, lastMsg, redemptions,
                 vadClient, sttGraph, handlers>>
pipelineVars == <<vadClient, sttGraph, handlers>>
releaseVars == <<executions, closedExecutions>>
intakeVars == <<received, classified>>
segmenterVars == <<isCapturingSpeech, pauseDuration, speechBuffer, fed, fedVoice>>
executorVars == <<STT_ACTIVE_EXECUTIONS, IMAGECHAT_ACTIVE_EXECUTIONS,
                  imageChatExecutor, imageChatCurrentVoiceId, builds, tornDown>>
handlerVars == <<events, pendingVad, isCapturingSpeech, pauseDuration, speechBuffer,
                 processingQueue, isProcessing, inflight,
                 STT_ACTIVE_EXECUTIONS, IMAGECHAT_ACTIVE_EXECUTIONS,
                 imageChatExecutor, imageChatCurrentVoiceId, builds, tornDown,
                 sent, enqueued, started, applied, failures, unhandled,
                 fed, fedVoice, lastH, lastStart, lastDrain,
                 wsSendThrows, executions, closedExecutions, received, classified>>
vars == <<now, env, nonceTimestamps, last, acceptLog,
          uuids, wsTokens, connections, sockets, lastUp, lastMsg, redemptions,
          vadClient, sttGraph, handlers,
          events, pendingVad, isCapturingSpeech, pauseDuration, speechBuffer,
          processingQueue, isProcessing, inflight,
          STT_ACTIVE_EXECUTIONS, IMAGECHAT_ACTIVE_EXECUTIONS,
          imageChatExecutor, imageChatCurrentVoiceId, builds, tornDown,
          sent, enqueued, started, applied, failures, unhandled,
          fed, fedVoice, lastH, lastStart, lastDrain,
          wsSendThrows, executions, closedExecutions, received, classified>>

----------------------------------------------------------------------------
(* Program constants *)

NONCE_TTL_MS == 5 * 60 * 1000
WS_TOKEN_TTL_MS == 5 * 60 * 1000

SCHEME == "IW1-HMAC-SHA256"
METHOD == "ai.inworld.engine.v1.SessionTokens/GenerateSessionToken"
TAIL == "iw1_request"

(* Bounds of the model.  Time advances in ticks of TickMs; the replay      *)
(* window is TicksPerWindow ticks, so that a clock reading can sit exactly *)
(* on the window's edge.                                                   *)
TicksPerWindow == 2
MaxTicks == 4
\* Gateway runs: sessions created, WebSockets opened, clock ticks
MaxSessions == 1
MaxSockets == 2
MaxGatewayTicks == 3

TickMs == NONCE_TTL_MS \div TicksPerWindow

----------------------------------------------------------------------------
(* Values *)

ServerApiKey == "key-1"
ServerSecret == "secret-1"
ApiKeys == {ServerApiKey, "key-2"}
Secrets == {ServerSecret, "secret-2"}
Nonces == {"n1", "n2"}
ServerHost == "gw.example"
Hosts == {ServerHost, "other.example"}

\* getClientCredsFromInworldEnv(): null when the variable is missing or malformed
NoCreds == [configured |-> FALSE, apiKey |-> "", apiSecret |-> ""]
Creds == [configured |-> TRUE, apiKey |-> ServerApiKey, apiSecret |-> ServerSecret]

getClientCredsFromInworldEnv == env

\* A DateTime field: "utc14" is a string of 14 digits, utc the Date.UTC value of
\* it; "malformed" is any other non-empty string; "missing" is the empty string.
DateTimeUtc(ms) == [kind |-> "utc14", utc |-> ms]
DateTimeMalformed == [kind |-> "malformed", utc |-> 0]
DateTimeMissing == [kind |-> "missing", utc |-> 0]

\* HMAC-SHA256 as an ideal keyed hash: a term of its key and message, so two
\* digests are equal only when keys and messages are.
Hmac(key, message) == <<key, message>>

RECURSIVE SignatureChain(_, _)
SignatureChain(key, values) ==
    IF values = <<>> THEN key
    ELSE SignatureChain(Hmac(key, Head(values)), Tail(values))

\* key = "IW1" + secret; for each value key = HMAC(key, value); hex of the last key
generateSignatureCSharpCompatible(values, secret) ==
    SignatureChain(<<"IW1", secret>>, values)

NoSignature == <<>>

\* What a client holding `secret` signs for (dateTime, host, nonce)
ClientSignature(dateTime, host, nonce, secret) ==
    generateSignatureCSharpCompatible(<<dateTime, host, METHOD, nonce, TAIL>>, secret)

\* The Authorization value after lines 93-105 (header, or the decoded "auth"
\* query parameter): scheme "" stands for no value at all.
Header(scheme, apiKey, dateTime, nonce, signature) ==
    [scheme |-> scheme, ApiKey |-> apiKey, DateTime |-> dateTime,
     Nonce |-> nonce, Signature |-> signature]

NoHeader == Header("", "", DateTimeMissing, "", NoSignature)

Null == [null |-> TRUE]

parseAuthorizationHeader(header) ==
    IF header.scheme = "" THEN Null
    ELSE IF header.scheme # SCHEME THEN Null
    ELSE IF \/ header.ApiKey = ""
            \/ header.DateTime.kind = "missing"
            \/ header.Nonce = ""
            \/ header.Signature = NoSignature
         THEN Null
    ELSE [null |-> FALSE, apiKey |-> header.ApiKey, dateTime |-> header.DateTime,
          nonce |-> header.Nonce, signature |-> header.Signature]

Abs(x) == IF x < 0 THEN -x ELSE x

\* Mutant: only stale timestamps are bounded (no Math.abs)
isDateTimeSkewAcceptable_PastOnly(dateTime) ==
    IF dateTime.kind # "utc14" THEN FALSE
    ELSE now - dateTime.utc <= NONCE_TTL_MS

isDateTimeSkewAcceptable(dateTime) ==
    IF dateTime.kind # "utc14" THEN FALSE
    ELSE Abs(now - dateTime.utc) <= NONCE_TTL_MS

\* Mutant: a record exactly as old as the window is evicted (>= for >)
cleanupExpiredNonces_EvictAtWindow(map, t) ==
    [n \in {m \in DOMAIN map : ~(t - map[m] >= NONCE_TTL_MS)} |-> map[n]]

\* Mutant: nothing is ever evicted
cleanupExpiredNonces_KeepAll(map, t) == map

\* The map after cleanupExpiredNonces(t)
cleanupExpiredNonces(map, t) ==
    [n \in {m \in DOMAIN map : ~(t - map[m] > NONCE_TTL_MS)} |-> map[n]]

MapSet(map, k, v) == [x \in DOMAIN map \cup {k} |-> IF x = k THEN v ELSE map[x]]

Result(ok, error, map) == [ok |-> ok, error |-> error, nonceTimestamps |-> map]

\* Mutant: the nonce is recorded before the signature is compared
verifyIncomingRequest_CommitBeforeSignature(req) ==
    LET parsed == parseAuthorizationHeader(req.header)
        creds == getClientCredsFromInworldEnv
    IN  IF parsed.null
          THEN Result(FALSE, "Missing or invalid Authorization", nonceTimestamps)
        ELSE IF ~creds.configured
          THEN Result(FALSE, "Server not configured for client auth", nonceTimestamps)
        ELSE IF parsed.apiKey # creds.apiKey
          THEN Result(FALSE, "ApiKey mismatch", nonceTimestamps)
        ELSE IF ~isDateTimeSkewAcceptable(parsed.dateTime)
          THEN Result(FALSE, "DateTime skew too large", nonceTimestamps)
        ELSE LET cleaned == cleanupExpiredNonces(nonceTimestamps, now)
                 expected == generateSignatureCSharpCompatible(
                     <<parsed.dateTime, req.host, METHOD, parsed.nonce, TAIL>>,
                     creds.apiSecret)
             IN  IF parsed.nonce \in DOMAIN cleaned
                   THEN Result(FALSE, "Nonce replayed", cleaned)
                 ELSE IF expected # parsed.signature
                   THEN Result(FALSE, "Signature mismatch",
                               MapSet(cleaned, parsed.nonce, now))
                 ELSE Result(TRUE, "", MapSet(cleaned, parsed.nonce, now))

\* Mutant: the signature is compared before the nonce is looked up
verifyIncomingRequest_SignatureBeforeNonce(req) ==
    LET parsed == parseAuthorizationHeader(req.header)
        creds == getClientCredsFromInworldEnv
    IN  IF parsed.null
          THEN Result(FALSE, "Missing or invalid Authorization", nonceTimestamps)
        ELSE IF ~creds.configured
          THEN Result(FALSE, "Server not configured for client auth", nonceTimestamps)
        ELSE IF parsed.apiKey # creds.apiKey
          THEN Result(FALSE, "ApiKey mismatch", nonceTimestamps)
        ELSE IF ~isDateTimeSkewAcceptable(parsed.dateTime)
          THEN Result(FALSE, "DateTime skew too large", nonceTimestamps)
        ELSE LET cleaned == cleanupExpiredNonces(nonceTimestamps, now)
                 expected == generateSignatureCSharpCompatible(
                     <<parsed.dateTime, req.host, METHOD, parsed.nonce, TAIL>>,
                     creds.apiSecret)
             IN  IF expected # parsed.signature
                   THEN Result(FALSE, "Signature mismatch", cleaned)
                 ELSE IF parsed.nonce \in DOMAIN cleaned
                   THEN Result(FALSE, "Nonce replayed", cleaned)
                 ELSE Result(TRUE, "", MapSet(cleaned, parsed.nonce, now))

\* The result of verifyIncomingRequest(req) and the nonce map it leaves
verifyIncomingRequest(req) ==
    LET parsed == parseAuthorizationHeader(req.header)
        creds == getClientCredsFromInworldEnv
    IN  IF parsed.null
          THEN Result(FALSE, "Missing or invalid Authorization", nonceTimestamps)
        ELSE IF ~creds.configured
          THEN Result(FALSE, "Server not configured for client auth", nonceTimestamps)
        ELSE IF parsed.apiKey # creds.apiKey
          THEN Result(FALSE, "ApiKey mismatch", nonceTimestamps)
        ELSE IF ~isDateTimeSkewAcceptable(parsed.dateTime)
          THEN Result(FALSE, "DateTime skew too large", nonceTimestamps)
        ELSE LET cleaned == cleanupExpiredNonces(nonceTimestamps, now)
                 expected == generateSignatureCSharpCompatible(
                     <<parsed.dateTime, req.host, METHOD, parsed.nonce, TAIL>>,
                     creds.apiSecret)
             IN  IF parsed.nonce \in DOMAIN cleaned
                   THEN Result(FALSE, "Nonce replayed", cleaned)
                 ELSE IF expected # parsed.signature
                   THEN Result(FALSE, "Signature mismatch", cleaned)
                 ELSE Result(TRUE, "", MapSet(cleaned, parsed.nonce, now))

----------------------------------------------------------------------------
(* Requests of the environment *)

DateTimesAround(t) ==
    {DateTimeUtc(t + d * TickMs) :
        d \in {-(TicksPerWindow + 1), -TicksPerWindow, 0, TicksPerWindow, TicksPerWindow + 1}}

Request(header, host) == [header |-> header, host |-> host]

\* The signatures a request for (dateTime, host, nonce) may carry: the one the
\* holder of the server's secret computes for it, and ones computed for
\* another nonce, for another host, or with another secret
SignaturesFor(dateTime, host, nonce) ==
    {ClientSignature(dateTime, host, nonce, ServerSecret)}
    \cup {ClientSignature(dateTime, host, n, ServerSecret) : n \in Nonces \ {nonce}}
    \cup {ClientSignature(dateTime, h, nonce, ServerSecret) : h \in Hosts \ {host}}
    \cup {ClientSignature(dateTime, host, nonce, s) : s \in Secrets \ {ServerSecret}}

\* Well-formed headers.  With nonce "n1": any key, any DateTime around the
\* clock, any of the signatures above.  With nonce "n2", the second entry of
\* the cache: the server's key, the current DateTime, any of the signatures.
SignedRequests ==
    UNION {{Request(Header(SCHEME, k, dt, "n1", sig), ServerHost) :
               k \in ApiKeys, sig \in SignaturesFor(dt, ServerHost, "n1")} :
           dt \in DateTimesAround(now)}
    \cup {Request(Header(SCHEME, ServerApiKey, DateTimeUtc(now), "n2", sig), ServerHost) :
               sig \in SignaturesFor(DateTimeUtc(now), ServerHost, "n2")}

MalformedRequests ==
    {Request(NoHeader, ServerHost),
     Request(Header("Bearer", ServerApiKey, DateTimeUtc(now), "n1",
                    ClientSignature(DateTimeUtc(now), ServerHost, "n1", ServerSecret)),
             ServerHost),
     Request(Header(SCHEME, ServerApiKey, DateTimeUtc(now), "", NoSignature), ServerHost),
     Request(Header(SCHEME, ServerApiKey, DateTimeMalformed, "n1",
                    ClientSignature(DateTimeMalformed, ServerHost, "n1", ServerSecret)),
             ServerHost)}

Requests == SignedRequests \cup MalformedRequests

\* A request with the current DateTime, signed with `secret`
CurrentRequest(apiKey, nonce, secret) ==
    Request(Header(SCHEME, apiKey, DateTimeUtc(now), nonce,
                   ClientSignature(DateTimeUtc(now), ServerHost, nonce, secret)),
            ServerHost)

\* A request dated just before the window
StaleRequest(nonce) ==
    LET dt == DateTimeUtc(now - (TicksPerWindow + 1) * TickMs)
    IN  Request(Header(SCHEME, ServerApiKey, dt, nonce,
                       ClientSignature(dt, ServerHost, nonce, ServerSecret)),
                ServerHost)

\* The requests of the runs checked for progress: a good one per nonce, and one
\* failing each of the checks
FewRequests ==
    {CurrentRequest(ServerApiKey, n, ServerSecret) : n \in Nonces}
    \cup {Request(NoHeader, ServerHost),
          CurrentRequest("key-2", "n1", ServerSecret),
          StaleRequest("n1"),
          CurrentRequest(ServerApiKey, "n1", "secret-2")}

----------------------------------------------------------------------------
(* History *)

NoCall == [called |-> FALSE]

Call(req, res) ==
    [called |-> TRUE, req |-> req, at |-> now, ok |-> res.ok, error |-> res.error]

Logged(req, res) ==
    IF res.ok
      THEN [acceptLog EXCEPT ![req.header.Nonce] =
                Append(@, [at |-> now, dateTime |-> req.header.DateTime])]
      ELSE acceptLog

----------------------------------------------------------------------------
(* message_handler.ts (src/unnamed/part_002): the MessageHandler of one    *)
(* connection.  handleMessage and the queued tasks are async functions: a  *)
(* step below is the code that runs between two awaits.                    *)

INPUT_SAMPLE_RATE == 16000
PAUSE_DURATION_THRESHOLD_MS == 650
MIN_SPEECH_DURATION_MS == 200
FRAME_PER_BUFFER == 1024
DEFAULT_VOICE_ID == "Dennis"

\* Bounds of the handler runs: audio and audioSessionEnd events of a segmenter
\* run, classifier calls in flight, text and imageChat events of a queue run
MaxAudioEvents == 3
MaxPending == 2
MaxTaskEvents == 3

\* The sample counts of the audio events a client sends: below FRAME_PER_BUFFER,
\* 128 ms and 256 ms of audio (either side of MIN_SPEECH_DURATION_MS), and
\* 650 ms and 651 ms (either side of PAUSE_DURATION_THRESHOLD_MS)
AudioSizes == {512, 1024, 2048, 5200, 5208}

\* message.voiceId of an imageChat event; "" stands for a missing one
NoVoiceId == ""
VoiceIds == {NoVoiceId, DEFAULT_VOICE_ID, "X"}

\* audioBuffer of one audio event: the event's interactionId and its length
Batch(id, size) == [id |-> id, size |-> size]

\* speechBuffer.length
RECURSIVE Samples(_)
Samples(buf) == IF buf = <<>> THEN 0 ELSE Head(buf).size + Samples(Tail(buf))

\* (length * 2000) / INPUT_SAMPLE_RATE, exact for the lengths in AudioSizes
DurationMs(length) == (length * 2000) \div INPUT_SAMPLE_RATE

Segmenter(capturing, pause, buffer) ==
    [isCapturingSpeech |-> capturing, pauseDuration |-> pause, speechBuffer |-> buffer]

\* The queued closures: executeGraph for a text or an audio input,
\* executeImageChat for an imageChat input
Task(id, kind, voiceId, audio) ==
    [id |-> id, kind |-> kind, voiceId |-> voiceId, audio |-> audio]

NoTask == Task(0, "none", NoVoiceId, <<>>)

\* Mutant: a no-voice batch adds to the pause and is not buffered
audioTransition_SkipSilence(s, batch, voice) ==
    IF s.isCapturingSpeech
      THEN IF ~voice
             THEN LET pause == s.pauseDuration + DurationMs(batch.size)
                  IN  IF pause > PAUSE_DURATION_THRESHOLD_MS
                        THEN [seg |-> Segmenter(FALSE, pause, s.speechBuffer),
                              capture |-> DurationMs(Samples(s.speechBuffer))
                                              > MIN_SPEECH_DURATION_MS]
                        ELSE [seg |-> Segmenter(TRUE, pause, s.speechBuffer),
                              capture |-> FALSE]
             ELSE [seg |-> Segmenter(TRUE, 0, Append(s.speechBuffer, batch)),
                   capture |-> FALSE]
      ELSE IF voice
             THEN [seg |-> Segmenter(TRUE, 0, Append(s.speechBuffer, batch)),
                   capture |-> FALSE]
             ELSE [seg |-> s, capture |-> FALSE]

\* The segmenter after a classified batch, and whether processCapturedSpeech
\* is called; `voice` is vadResult !== -1
audioTransition(s, batch, voice) ==
    IF s.isCapturingSpeech
      THEN LET buffer == Append(s.speechBuffer, batch)
           IN  IF ~voice
                 THEN LET pause == s.pauseDuration + DurationMs(batch.size)
                      IN  IF pause > PAUSE_DURATION_THRESHOLD_MS
                            THEN [seg |-> Segmenter(FALSE, pause, buffer),
                                  capture |-> DurationMs(Samples(buffer))
                                                  > MIN_SPEECH_DURATION_MS]
                            ELSE [seg |-> Segmenter(TRUE, pause, buffer),
                                  capture |-> FALSE]
                 ELSE [seg |-> Segmenter(TRUE, 0, buffer), capture |-> FALSE]
      ELSE IF voice
             THEN [seg |-> Segmenter(TRUE, 0, Append(s.speechBuffer, batch)),
                   capture |-> FALSE]
             ELSE [seg |-> s, capture |-> FALSE]

\* Mutant: the flush applies the minimum speech duration
sessionEndTransition_MinDuration(s) ==
    [seg |-> Segmenter(FALSE, 0, s.speechBuffer),
     capture |-> DurationMs(Samples(s.speechBuffer)) > MIN_SPEECH_DURATION_MS]

\* case EVENT_TYPE.AUDIO_SESSION_END
sessionEndTransition(s) ==
    [seg |-> Segmenter(FALSE, 0, s.speechBuffer),
     capture |-> Len(s.speechBuffer) > 0]

\* Mutant: the buffer is not cleared once its input is built
processCapturedSpeech_KeepBuffer(s, interactionId) ==
    [seg |-> s, task |-> Task(interactionId, "audio", NoVoiceId, s.speechBuffer)]

\* processCapturedSpeech: the input it builds and the segmenter it leaves.
\* normalizeAudio scales the samples and keeps their number and order.
processCapturedSpeech(s, interactionId) ==
    [seg |-> Segmenter(s.isCapturingSpeech, s.pauseDuration, <<>>),
     task |-> Task(interactionId, "audio", NoVoiceId, s.speechBuffer)]

\* What a run of processQueue leaves when it reaches an await or returns:
\* the flag, the queue, and the task it has called (NoTask: none)
Drain(processing, queue, task) ==
    [isProcessing |-> processing, processingQueue |-> queue, start |-> task]

\* Mutant: the flag is not cleared after the loop
drainLoop_FlagLeftSet(queue) ==
    IF Len(queue) > 0
      THEN Drain(TRUE, Tail(queue), Head(queue))
      ELSE Drain(TRUE, queue, NoTask)

\* while (this.processingQueue.length > 0) { shift; await task() } and the
\* assignment after the loop
drainLoop(queue) ==
    IF Len(queue) > 0
      THEN Drain(TRUE, Tail(queue), Head(queue))
      ELSE Drain(FALSE, queue, NoTask)

\* Mutant: a drain is started although one is active
processQueue_NoGuard(processing, queue) == drainLoop(queue)

processQueue(processing, queue) ==
    IF processing THEN Drain(processing, queue, NoTask) ELSE drainLoop(queue)

addToQueue(processing, queue, task) == processQueue(processing, Append(queue, task))

\* Mutant: a rejection leaves the loop (no try/catch around await task())
taskSettled_NoCatch(queue, rejected) ==
    IF rejected THEN Drain(TRUE, queue, NoTask) ELSE drainLoop(queue)

\* The drain loop resumed after `await task()` has settled
taskSettled(queue, rejected) == drainLoop(queue)

\* this.imageChatExecutor: an executor built for a voice, or null
Executor(id, voice) == [id |-> id, voice |-> voice]
NoExecutor == Executor(0, NoVoiceId)

\* input.voiceId || DEFAULT_VOICE_ID
voiceOf(task) == IF task.voiceId = NoVoiceId THEN DEFAULT_VOICE_ID ELSE task.voiceId

Ensured(executor, voiceId, built, torn, thrown) ==
    [executor |-> executor, voiceId |-> voiceId, builds |-> built, tornDown |-> torn,
     thrown |-> thrown]

\* Mutant: an existing executor is reused whatever its voice
ensureImageChatExecutor_AnyVoice(voiceId, buildOk) ==
    IF imageChatExecutor # NoExecutor
      THEN Ensured(imageChatExecutor, imageChatCurrentVoiceId, builds, tornDown, FALSE)
      ELSE IF buildOk
             THEN Ensured(Executor(builds + 1, voiceId), voiceId, builds + 1,
                          tornDown, FALSE)
             ELSE Ensured(NoExecutor, imageChatCurrentVoiceId, builds, tornDown, TRUE)

\* ensureImageChatExecutor; buildOk: GraphBuilder...build() returns
ensureImageChatExecutor(voiceId, buildOk) ==
    IF imageChatExecutor # NoExecutor /\ imageChatCurrentVoiceId = voiceId
      THEN Ensured(imageChatExecutor, imageChatCurrentVoiceId, builds, tornDown, FALSE)
      ELSE LET torn == IF imageChatExecutor # NoExecutor
                         THEN tornDown \cup {imageChatExecutor.id}
                         ELSE tornDown
           IN  IF buildOk
                 THEN Ensured(Executor(builds + 1, voiceId), voiceId, builds + 1,
                              torn, FALSE)
                 ELSE Ensured(NoExecutor, imageChatCurrentVoiceId, builds, torn, TRUE)

\* Outbound events
Event(type, interactionId) == [type |-> type, interactionId |-> interactionId]

\* A task a drain loop has called: where it is suspended (awaiting
\* executor.start, reading the output stream, or settled with the drain loop
\* not yet resumed), whether its promise rejected, and the executor it runs on
\* (0: the STT graph's)
Running(task, phase, rejected, on) ==
    [task |-> task, phase |-> phase, rejected |-> rejected, on |-> on]

Failure(id, where) == [id |-> id, where |-> where]

\* History records
Step(op, id, before, batch, voice, tasks) ==
    [op |-> op, id |-> id, before |-> before, batch |-> batch, voice |-> voice,
     tasks |-> tasks]
NoStep == Step("none", 0, Segmenter(FALSE, 0, <<>>), Batch(0, 0), FALSE, <<>>)

Start(task, voiceId, executorBefore, voiceBefore, entry) ==
    [called |-> task # NoTask, task |-> task, voiceId |-> voiceId,
     executorBefore |-> executorBefore, voiceBefore |-> voiceBefore, entry |-> entry]
NoStart == Start(NoTask, NoVoiceId, NoExecutor, NoVoiceId,
                 Running(NoTask, "none", FALSE, 0))

Resumed(entry, queue) == [called |-> TRUE, entry |-> entry, queue |-> queue]
NoDrain == [called |-> FALSE, entry |-> Running(NoTask, "none", FALSE, 0),
            queue |-> <<>>]

----------------------------------------------------------------------------
(* Actions *)

NoUpgrade == [called |-> FALSE]
NoMessage == [called |-> FALSE]

\* The module-level state of auth.ts and index.ts and the fields of a new
\* MessageHandler
InitAdmission ==
    /\ now = 0
    /\ env \in {Creds, NoCreds}
    /\ nonceTimestamps = <<>>
    /\ last = NoCall
    /\ acceptLog = [n \in Nonces |-> <<>>]
    /\ uuids = 0
    /\ wsTokens = <<>>
    /\ connections = <<>>
    /\ sockets = <<>>
    /\ lastUp = NoUpgrade
    /\ lastMsg = NoMessage
    /\ redemptions = <<>>
    /\ events = 0
    /\ pendingVad = {}
    /\ isCapturingSpeech = FALSE
    /\ pauseDuration = 0
    /\ speechBuffer = <<>>
    /\ processingQueue = <<>>
    /\ isProcessing = FALSE
    /\ inflight = {}
    /\ STT_ACTIVE_EXECUTIONS = 0
    /\ IMAGECHAT_ACTIVE_EXECUTIONS = 0
    /\ imageChatExecutor = NoExecutor
    /\ imageChatCurrentVoiceId = NoVoiceId
    /\ builds = 0
    /\ tornDown = {}
    /\ sent = <<>>
    /\ enqueued = <<>>
    /\ started = <<>>
    /\ applied = <<>>
    /\ failures = {}
    /\ unhandled = {}
    /\ fed = 0
    /\ fedVoice = 0
    /\ lastH = NoStep
    /\ lastStart = NoStart
    /\ lastDrain = NoDrain
    /\ handlers = <<>>
    /\ wsSendThrows = FALSE
    /\ executions = {}
    /\ closedExecutions = <<>>
    /\ received = 0
    /\ classified = 0

\* The server starts to listen with vadClient and sttGraph not yet assigned
Init ==
    /\ InitAdmission
    /\ vadClient = FALSE
    /\ sttGraph = FALSE

\* The wall clock advances
Advance(maxTicks) ==
    /\ now + TickMs <= maxTicks * TickMs
    /\ now' = now + TickMs
    /\ last' = NoCall
    /\ lastUp' = NoUpgrade
    /\ lastMsg' = NoMessage
    /\ UNCHANGED <<env, nonceTimestamps, acceptLog>>
    /\ UNCHANGED <<uuids, wsTokens, connections, sockets, redemptions>>
    /\ UNCHANGED handlerVars
    /\ UNCHANGED pipelineVars

Tick == Advance(MaxTicks)

\* authMiddleware on a protected HTTP route: 401 or next()
authMiddleware(req) ==
    LET result == verifyIncomingRequest(req)
    IN  /\ nonceTimestamps' = result.nonceTimestamps
        /\ last' = Call(req, result)
        /\ acceptLog' = Logged(req, result)
        /\ UNCHANGED <<now, env>>

\* POST /chat: the route body touches none of the state modelled here
ChatRoute(req) ==
    /\ authMiddleware(req)
    /\ lastUp' = NoUpgrade
    /\ lastMsg' = NoMessage
    /\ UNCHANGED <<uuids, wsTokens, connections, sockets, redemptions>>
    /\ UNCHANGED handlerVars
    /\ UNCHANGED pipelineVars

Chat == \E req \in Requests : ChatRoute(req)

NextAuth == Tick \/ Chat

SpecAuth == Init /\ [][NextAuth]_vars

ChatFew == \E req \in FewRequests : ChatRoute(req)

NextFair == Tick \/ ChatFew

\* The clock keeps advancing and requests keep arriving
FairAuth == Init /\ [][NextFair]_vars /\ WF_vars(Tick) /\ WF_vars(ChatFew)

----------------------------------------------------------------------------
(* index.ts: session tokens, upgrade, connections *)

\* `undefined` for a missing query parameter (a uuid is a number from 1)
NoValue == 0

\* The requests of the gateway runs: no Authorization at all, a good request,
\* a request with a wrong signature
GatewayRequests ==
    {Request(NoHeader, ServerHost),
     CurrentRequest(ServerApiKey, "n1", ServerSecret),
     CurrentRequest(ServerApiKey, "n1", "secret-2")}

MapDelete(map, k) == [x \in DOMAIN map \ {k} |-> map[x]]

\* Mutant: the record is not deleted on redemption
wsTokenCheck_NoDelete(key, token) ==
    IF key # NoValue /\ token # NoValue
      THEN IF /\ key \in DOMAIN wsTokens
              /\ wsTokens[key].token = token
              /\ wsTokens[key].expiresAt >= now
             THEN [allowed |-> TRUE, denyReason |-> "", wsTokens |-> wsTokens]
             ELSE [allowed |-> FALSE, denyReason |-> "Invalid or expired wsToken",
                   wsTokens |-> wsTokens]
      ELSE [allowed |-> FALSE, denyReason |-> "", wsTokens |-> wsTokens]

\* Mutant: a token is refused from expiresAt on (> for >=)
wsTokenCheck_Strict(key, token) ==
    IF key # NoValue /\ token # NoValue
      THEN IF /\ key \in DOMAIN wsTokens
              /\ wsTokens[key].token = token
              /\ wsTokens[key].expiresAt > now
             THEN [allowed |-> TRUE, denyReason |-> "",
                   wsTokens |-> MapDelete(wsTokens, key)]
             ELSE [allowed |-> FALSE, denyReason |-> "Invalid or expired wsToken",
                   wsTokens |-> wsTokens]
      ELSE [allowed |-> FALSE, denyReason |-> "", wsTokens |-> wsTokens]

\* The wsToken path of the upgrade handler: `allowed`, `denyReason` and the
\* token table it leaves
wsTokenCheck(key, token) ==
    IF key # NoValue /\ token # NoValue
      THEN IF /\ key \in DOMAIN wsTokens
              /\ wsTokens[key].token = token
              /\ wsTokens[key].expiresAt >= now
             THEN [allowed |-> TRUE, denyReason |-> "",
                   wsTokens |-> MapDelete(wsTokens, key)]
             ELSE [allowed |-> FALSE, denyReason |-> "Invalid or expired wsToken",
                   wsTokens |-> wsTokens]
      ELSE [allowed |-> FALSE, denyReason |-> "", wsTokens |-> wsTokens]

\* const record = wsTokens[key]
TokenRecord(key) ==
    IF key \in DOMAIN wsTokens
      THEN [found |-> TRUE, token |-> wsTokens[key].token,
            expiresAt |-> wsTokens[key].expiresAt]
      ELSE [found |-> FALSE, token |-> NoValue, expiresAt |-> 0]

NotVerified == Result(FALSE, "not called", nonceTimestamps)

\* Mutant: the upgrade goes on whatever verify said
upgradeAdmitted_IgnoreVerify(allowed, v) == TRUE

\* Whether the upgrade handler reaches webSocket.handleUpgrade
upgradeAdmitted(allowed, v) == allowed \/ v.ok

Socket(key, open, handler) == [key |-> key, open |-> open, handler |-> handler]

\* POST /create-session
CreateSession(req) ==
    LET result == verifyIncomingRequest(req)
        sessionKey == uuids + 1
        wsToken == uuids + 2
    IN  /\ result.ok => uuids + 2 <= 2 * MaxSessions
        /\ authMiddleware(req)
        /\ IF result.ok
             THEN /\ uuids' = uuids + 2
                  /\ connections' = MapSet(connections, sessionKey, [ws |-> NoValue])
                  /\ wsTokens' = MapSet(wsTokens, sessionKey,
                         [token |-> wsToken, expiresAt |-> now + WS_TOKEN_TTL_MS])
             ELSE UNCHANGED <<uuids, connections, wsTokens>>
        /\ lastUp' = NoUpgrade
        /\ lastMsg' = NoMessage
        /\ UNCHANGED <<sockets, redemptions>>
        /\ UNCHANGED handlerVars
        /\ UNCHANGED pipelineVars

\* webSocket.on('connection'): the registry and the socket after the handler
connectionHandler(key) ==
    LET ws == Len(sockets) + 1
    IN  IF key = NoValue
          THEN /\ sockets' = Append(sockets, Socket(key, FALSE, FALSE))
               /\ UNCHANGED <<connections, handlers>>
          ELSE /\ sockets' = Append(sockets, Socket(key, TRUE, TRUE))
               /\ connections' = MapSet(connections, key, [ws |-> ws])
               /\ handlers' = Append(handlers, [ws |-> ws, sttGraph |-> sttGraph,
                                                vadClient |-> vadClient])

Upgraded(path, key, token, req, record, allowed, v, admitted) ==
    [called |-> TRUE, path |-> path, key |-> key, token |-> token, req |-> req,
     at |-> now, record |-> record, allowed |-> allowed, verified |-> v.ok,
     response |-> IF path # "/ws" THEN "none" ELSE IF admitted THEN "101" ELSE "401",
     destroyed |-> ~(path = "/ws" /\ admitted),
     ws |-> IF path = "/ws" /\ admitted THEN Len(sockets) + 1 ELSE NoValue]

\* server.on('upgrade'), with the 'connection' handler that handleUpgrade's
\* callback emits
Upgrade(path, key, token, req) ==
    IF path # "/ws"
      THEN /\ lastUp' = Upgraded(path, key, token, req, TokenRecord(key), FALSE,
                                 NotVerified, FALSE)
           /\ last' = NoCall
           /\ lastMsg' = NoMessage
           /\ UNCHANGED <<now, env, nonceTimestamps, acceptLog>>
           /\ UNCHANGED <<uuids, wsTokens, connections, sockets, redemptions>>
           /\ UNCHANGED handlerVars
           /\ UNCHANGED pipelineVars
      ELSE LET check == wsTokenCheck(key, token)
               v == IF check.allowed THEN NotVerified ELSE verifyIncomingRequest(req)
               admitted == upgradeAdmitted(check.allowed, v)
           IN  /\ admitted => Len(sockets) < MaxSockets
               /\ wsTokens' = check.wsTokens
               /\ IF check.allowed
                    THEN /\ last' = NoCall
                         /\ UNCHANGED <<nonceTimestamps, acceptLog>>
                    ELSE /\ last' = Call(req, v)
                         /\ nonceTimestamps' = v.nonceTimestamps
                         /\ acceptLog' = Logged(req, v)
               /\ redemptions' =
                    IF check.allowed
                      THEN Append(redemptions,
                               [key |-> key, token |-> token,
                                expiresAt |-> TokenRecord(key).expiresAt])
                      ELSE redemptions
               /\ IF admitted
                    THEN connectionHandler(key)
                    ELSE UNCHANGED <<sockets, connections, handlers>>
               /\ lastUp' = Upgraded(path, key, token, req, TokenRecord(key),
                                     check.allowed, v, admitted)
               /\ lastMsg' = NoMessage
               /\ UNCHANGED <<now, env, uuids>>
               /\ UNCHANGED handlerVars
               /\ UNCHANGED <<vadClient, sttGraph>>

\* ws.on('message'): the socket's own MessageHandler handles the event
Message(ws) ==
    /\ sockets[ws].open /\ sockets[ws].handler
    /\ lastMsg' = [called |-> TRUE, ws |-> ws, key |-> sockets[ws].key]
    /\ last' = NoCall
    /\ lastUp' = NoUpgrade
    /\ UNCHANGED <<now, env, nonceTimestamps, acceptLog>>
    /\ UNCHANGED <<uuids, wsTokens, connections, sockets, redemptions>>
    /\ UNCHANGED handlerVars
    /\ UNCHANGED pipelineVars

\* ws.on('close')
Close(ws) ==
    /\ sockets[ws].open /\ sockets[ws].handler
    /\ sockets' = [sockets EXCEPT ![ws].open = FALSE]
    /\ connections' = IF sockets[ws].key \in DOMAIN connections
                        THEN MapDelete(connections, sockets[ws].key)
                        ELSE connections
    /\ last' = NoCall
    /\ lastUp' = NoUpgrade
    /\ lastMsg' = NoMessage
    /\ UNCHANGED <<now, env, nonceTimestamps, acceptLog>>
    /\ UNCHANGED <<uuids, wsTokens, redemptions>>
    /\ UNCHANGED handlerVars
    /\ UNCHANGED pipelineVars

\* The key and wsToken query parameters a client may send
QueryKeys == {NoValue} \cup {u \in 1 .. uuids : u % 2 = 1}
QueryTokens == {NoValue} \cup {u \in 1 .. uuids : u % 2 = 0}

CreateSessionAny == \E req \in GatewayRequests : CreateSession(req)

UpgradeAny ==
    \E path \in {"/ws", "/"}, key \in QueryKeys, token \in QueryTokens,
       req \in GatewayRequests : Upgrade(path, key, token, req)

MessageAny == \E ws \in DOMAIN sockets : Message(ws)

CloseAny == \E ws \in DOMAIN sockets : Close(ws)

TickGateway == Advance(MaxGatewayTicks)

\* The callback of server.listen, resumed from an await: (TRUE, FALSE)
\* after VADFactory.createLocal, (TRUE, TRUE) after STTGraph.create
ListenCallback(vad, graph) ==
    /\ vadClient' = vad
    /\ sttGraph' = graph
    /\ last' = NoCall
    /\ lastUp' = NoUpgrade
    /\ lastMsg' = NoMessage
    /\ UNCHANGED <<now, env, nonceTimestamps, acceptLog>>
    /\ UNCHANGED <<uuids, wsTokens, connections, sockets, redemptions, handlers>>
    /\ UNCHANGED handlerVars

VadClientCreated == ~vadClient /\ ListenCallback(TRUE, FALSE)

SttGraphCreated == vadClient /\ ~sttGraph /\ ListenCallback(TRUE, TRUE)

NextGateway ==
    \/ TickGateway
    \/ CreateSessionAny
    \/ UpgradeAny
    \/ MessageAny
    \/ CloseAny
    \/ VadClientCreated
    \/ SttGraphCreated

SpecGateway == Init /\ [][NextGateway]_vars

----------------------------------------------------------------------------
(* message_handler.ts: the steps of one MessageHandler *)

CurrentSegmenter == Segmenter(isCapturingSpeech, pauseDuration, speechBuffer)

\* this.send(packet) for each of evts in turn: ws.send either passes the
\* packet on or throws, and a throw leaves the caller at the first of them
send(evts) ==
    [delivered |-> IF wsSendThrows THEN <<>> ELSE evts,
     thrown |-> wsSendThrows /\ evts # <<>>]

\* The head of a queued task, up to its first suspension: executeGraph up to
\* `await executor.start`, executeImageChat up to `await ...start` or, when
\* building the executor throws, through its catch block
begin(task, buildOk) ==
    IF task.kind = "imageChat"
      THEN LET e == ensureImageChatExecutor(voiceOf(task), buildOk)
           IN  [ensured |-> e,
                entry |-> IF e.thrown
                            THEN Running(task, "settled",
                                         send(<<Event("error", task.id)>>).thrown, 0)
                            ELSE Running(task, "start", FALSE, e.executor.id),
                stt |-> 0,
                image |-> IF e.thrown THEN 0 ELSE 1,
                events |-> IF e.thrown
                             THEN send(<<Event("error", task.id)>>).delivered
                             ELSE <<>>,
                failures |-> IF e.thrown THEN {Failure(task.id, "build")} ELSE {}]
      ELSE [ensured |-> Ensured(imageChatExecutor, imageChatCurrentVoiceId,
                                builds, tornDown, FALSE),
            entry |-> Running(task, "start", FALSE, 0),
            stt |-> 1,
            image |-> 0,
            events |-> <<>>,
            failures |-> {}]

\* A run of processQueue up to its await or its return: d is what the loop
\* leaves, `finished` the settled task it resumed from
Launch(d, finished, buildOk) ==
    /\ isProcessing' = d.isProcessing
    /\ processingQueue' = d.processingQueue
    /\ IF d.start = NoTask
         THEN /\ inflight' = inflight \ finished
              /\ lastStart' = NoStart
              /\ UNCHANGED <<started, sent, failures>>
              /\ UNCHANGED executorVars
         ELSE LET b == begin(d.start, buildOk)
              IN  /\ inflight' = (inflight \ finished) \cup {b.entry}
                  /\ started' = Append(started, d.start.id)
                  /\ STT_ACTIVE_EXECUTIONS' = STT_ACTIVE_EXECUTIONS + b.stt
                  /\ IMAGECHAT_ACTIVE_EXECUTIONS' = IMAGECHAT_ACTIVE_EXECUTIONS + b.image
                  /\ imageChatExecutor' = b.ensured.executor
                  /\ imageChatCurrentVoiceId' = b.ensured.voiceId
                  /\ builds' = b.ensured.builds
                  /\ tornDown' = b.ensured.tornDown
                  /\ sent' = sent \o b.events
                  /\ failures' = failures \cup b.failures
                  /\ lastStart' = Start(d.start, voiceOf(d.start), imageChatExecutor,
                                        imageChatCurrentVoiceId, b.entry)

\* this.addToQueue(task)
Enqueue(task, buildOk) ==
    /\ enqueued' = Append(enqueued, task.id)
    /\ Launch(addToQueue(isProcessing, processingQueue, task), {}, buildOk)

\* A step that leaves the queue and the tasks alone
NoLaunch ==
    /\ UNCHANGED <<processingQueue, isProcessing, inflight, enqueued, started>>
    /\ UNCHANGED <<sent, failures>>
    /\ UNCHANGED executorVars
    /\ lastStart' = NoStart

\* handleMessage, case EVENT_TYPE.TEXT
TextEvent ==
    LET id == events + 1
        task == Task(id, "text", NoVoiceId, <<>>)
    IN  /\ events < MaxTaskEvents
        /\ events' = id
        /\ \E buildOk \in BOOLEAN : Enqueue(task, buildOk)
        /\ applied' = Append(applied, id)
        /\ lastH' = Step("text", id, CurrentSegmenter, Batch(0, 0), FALSE, <<task>>)
        /\ lastDrain' = NoDrain
        /\ UNCHANGED <<pendingVad, unhandled>>
        /\ UNCHANGED segmenterVars
        /\ UNCHANGED wsSendThrows
        /\ UNCHANGED releaseVars
        /\ UNCHANGED intakeVars
        /\ UNCHANGED <<authVars, gatewayVars>>

\* handleMessage, case EVENT_TYPE.IMAGE_CHAT
ImageChatEvent(voiceId) ==
    LET id == events + 1
        task == Task(id, "imageChat", voiceId, <<>>)
    IN  /\ events < MaxTaskEvents
        /\ events' = id
        /\ \E buildOk \in BOOLEAN : Enqueue(task, buildOk)
        /\ applied' = Append(applied, id)
        /\ lastH' = Step("imageChat", id, CurrentSegmenter, Batch(0, 0), FALSE, <<task>>)
        /\ lastDrain' = NoDrain
        /\ UNCHANGED <<pendingVad, unhandled>>
        /\ UNCHANGED segmenterVars
        /\ UNCHANGED wsSendThrows
        /\ UNCHANGED releaseVars
        /\ UNCHANGED intakeVars
        /\ UNCHANGED <<authVars, gatewayVars>>

\* handleMessage, case EVENT_TYPE.AUDIO, up to `await detectVoiceActivity`; an
\* event of fewer than FRAME_PER_BUFFER samples ends here
AudioEvent(size) ==
    LET id == events + 1
        batch == Batch(id, size)
    IN  /\ events < MaxAudioEvents
        /\ events' = id
        /\ IF size >= FRAME_PER_BUFFER
             THEN /\ Cardinality(pendingVad) < MaxPending
                  /\ pendingVad' = pendingVad \cup {batch}
                  /\ UNCHANGED applied
             ELSE UNCHANGED <<pendingVad, applied>>
        /\ received' = received + size
        /\ classified' = IF size >= FRAME_PER_BUFFER
                            THEN classified + size ELSE classified
        /\ UNCHANGED wsSendThrows
        /\ UNCHANGED releaseVars
        /\ NoLaunch
        /\ lastH' = Step("audio", id, CurrentSegmenter, batch, FALSE, <<>>)
        /\ lastDrain' = NoDrain
        /\ UNCHANGED unhandled
        /\ UNCHANGED segmenterVars
        /\ UNCHANGED <<authVars, gatewayVars>>

\* handleMessage, case EVENT_TYPE.AUDIO, resumed with the classifier's result
VadResolved(batch, voice) ==
    LET s == CurrentSegmenter
        r == audioTransition(s, batch, voice)
        c == processCapturedSpeech(r.seg, batch.id)
        after == IF r.capture THEN c.seg ELSE r.seg
    IN  /\ batch \in pendingVad
        /\ pendingVad' = pendingVad \ {batch}
        /\ applied' = IF s.isCapturingSpeech \/ voice
                        THEN Append(applied, batch.id) ELSE applied
        /\ isCapturingSpeech' = after.isCapturingSpeech
        /\ pauseDuration' = after.pauseDuration
        /\ speechBuffer' = after.speechBuffer
        /\ fed' = IF s.isCapturingSpeech THEN fed + batch.size
                  ELSE IF voice THEN batch.size ELSE fed
        /\ fedVoice' = IF s.isCapturingSpeech
                         THEN fedVoice + (IF voice THEN batch.size ELSE 0)
                         ELSE IF voice THEN batch.size ELSE fedVoice
        /\ IF r.capture
             THEN /\ \E buildOk \in BOOLEAN : Enqueue(c.task, buildOk)
                  /\ lastH' = Step("vad", batch.id, s, batch, voice, <<c.task>>)
             ELSE /\ NoLaunch
                  /\ lastH' = Step("vad", batch.id, s, batch, voice, <<>>)
        /\ lastDrain' = NoDrain
        /\ UNCHANGED <<events, unhandled>>
        /\ UNCHANGED wsSendThrows
        /\ UNCHANGED releaseVars
        /\ UNCHANGED intakeVars
        /\ UNCHANGED <<authVars, gatewayVars>>

\* detectVoiceActivity rejects: the await throws inside handleMessage, outside
\* any try block, and the promise handleMessage returned rejects
VadRejected(batch) ==
    /\ batch \in pendingVad
    /\ pendingVad' = pendingVad \ {batch}
    /\ unhandled' = unhandled \cup {batch.id}
    /\ NoLaunch
    /\ lastH' = Step("vadRejected", batch.id, CurrentSegmenter, batch, FALSE, <<>>)
    /\ lastDrain' = NoDrain
    /\ UNCHANGED <<events, applied>>
    /\ UNCHANGED segmenterVars
    /\ UNCHANGED wsSendThrows
    /\ UNCHANGED releaseVars
    /\ UNCHANGED intakeVars
    /\ UNCHANGED <<authVars, gatewayVars>>

\* handleMessage, case EVENT_TYPE.AUDIO_SESSION_END
AudioSessionEndEvent ==
    LET id == events + 1
        s == CurrentSegmenter
        r == sessionEndTransition(s)
        c == processCapturedSpeech(r.seg, id)
        after == IF r.capture THEN c.seg ELSE r.seg
    IN  /\ events < MaxAudioEvents
        /\ events' = id
        /\ applied' = Append(applied, id)
        /\ isCapturingSpeech' = after.isCapturingSpeech
        /\ pauseDuration' = after.pauseDuration
        /\ speechBuffer' = after.speechBuffer
        /\ IF r.capture
             THEN /\ \E buildOk \in BOOLEAN : Enqueue(c.task, buildOk)
                  /\ lastH' = Step("audioSessionEnd", id, s, Batch(0, 0), FALSE, <<c.task>>)
             ELSE /\ NoLaunch
                  /\ lastH' = Step("audioSessionEnd", id, s, Batch(0, 0), FALSE, <<>>)
        /\ lastDrain' = NoDrain
        /\ UNCHANGED <<pendingVad, unhandled, fed, fedVoice>>
        /\ UNCHANGED wsSendThrows
        /\ UNCHANGED releaseVars
        /\ UNCHANGED intakeVars
        /\ UNCHANGED <<authVars, gatewayVars>>

\* `await executor.start(...)` settles.  A rejection leaves executeGraph, whose
\* promise rejects; in executeImageChat it reaches the catch block, which
\* sends an error event, and a throw of that send rejects the promise.
StartSettled(e, ok) ==
    /\ e \in inflight
    /\ e.phase = "start"
    /\ IF ok
         THEN /\ inflight' = (inflight \ {e}) \cup {Running(e.task, "stream", FALSE, e.on)}
              /\ executions' = executions \cup {e.task.id}
              /\ UNCHANGED <<sent, failures>>
         ELSE /\ failures' = failures \cup {Failure(e.task.id, "start")}
              /\ UNCHANGED executions
              /\ IF e.task.kind = "imageChat"
                   THEN LET out == send(<<Event("error", e.task.id)>>)
                        IN  /\ sent' = sent \o out.delivered
                            /\ inflight' = (inflight \ {e})
                                  \cup {Running(e.task, "settled", out.thrown, e.on)}
                   ELSE /\ UNCHANGED sent
                        /\ inflight' = (inflight \ {e})
                                          \cup {Running(e.task, "settled", TRUE, e.on)}
    /\ lastStart' = NoStart
    /\ lastH' = NoStep
    /\ lastDrain' = NoDrain
    /\ UNCHANGED <<processingQueue, isProcessing, enqueued, started>>
    /\ UNCHANGED executorVars
    /\ UNCHANGED <<wsSendThrows, closedExecutions>>
    /\ UNCHANGED intakeVars
    /\ UNCHANGED <<events, pendingVad, applied, unhandled>>
    /\ UNCHANGED segmenterVars
    /\ UNCHANGED <<authVars, gatewayVars>>

\* What reading the output stream can end in: handleResponse gets the text or
\* an error, which may be the 'recognition produced no text' one;
\* handleTTSResponse gets the chunks or an error
StreamOutcomes(kind) ==
    IF kind = "imageChat" THEN {"ok", "error"} ELSE {"ok", "error", "noText"}

\* The events handleResponse or handleTTSResponse sends
streamEvents(task, outcome) ==
    IF task.kind = "imageChat"
      THEN IF outcome = "ok"
             THEN <<Event("text", task.id), Event("audio", task.id)>>
             ELSE <<Event("error", task.id)>>
      ELSE CASE outcome = "ok" -> <<Event("text", task.id)>>
             [] outcome = "error" -> <<Event("error", task.id)>>
             [] outcome = "noText" -> <<>>

\* handleResponse or handleTTSResponse returns or throws, then the finally
\* block: send(interactionEnd), closeExecution, the decrement.  A throw of
\* send inside the finally block leaves it before closeExecution; in
\* executeImageChat the outer catch then sends an error event, which throws
\* as well.
StreamSettled(e, outcome) ==
    LET body == send(streamEvents(e.task, outcome))
        end == send(<<Event("interactionEnd", e.task.id)>>)
    IN  /\ e \in inflight
        /\ e.phase = "stream"
        /\ outcome \in StreamOutcomes(e.task.kind)
        /\ sent' = sent \o body.delivered \o end.delivered
        /\ failures' = IF outcome = "ok" THEN failures
                       ELSE failures \cup {Failure(e.task.id, outcome)}
        /\ inflight' = (inflight \ {e})
                          \cup {Running(e.task, "settled", end.thrown, e.on)}
        /\ IF end.thrown
             THEN UNCHANGED <<closedExecutions, STT_ACTIVE_EXECUTIONS,
                              IMAGECHAT_ACTIVE_EXECUTIONS>>
             ELSE /\ closedExecutions' = Append(closedExecutions, e.task.id)
                  /\ IF e.task.kind = "imageChat"
                       THEN /\ IMAGECHAT_ACTIVE_EXECUTIONS' =
                                   IMAGECHAT_ACTIVE_EXECUTIONS - 1
                            /\ UNCHANGED STT_ACTIVE_EXECUTIONS
                       ELSE /\ STT_ACTIVE_EXECUTIONS' = STT_ACTIVE_EXECUTIONS - 1
                            /\ UNCHANGED IMAGECHAT_ACTIVE_EXECUTIONS
        /\ UNCHANGED <<wsSendThrows, executions>>
        /\ UNCHANGED intakeVars
        /\ lastStart' = NoStart
        /\ lastH' = NoStep
        /\ lastDrain' = NoDrain
        /\ UNCHANGED <<processingQueue, isProcessing, enqueued, started>>
        /\ UNCHANGED <<imageChatExecutor, imageChatCurrentVoiceId, builds, tornDown>>
        /\ UNCHANGED <<events, pendingVad, applied, unhandled>>
        /\ UNCHANGED segmenterVars
        /\ UNCHANGED <<authVars, gatewayVars>>

\* processQueue resumes after `await task()`
DrainContinue(e) ==
    /\ e \in inflight
    /\ e.phase = "settled"
    /\ \E buildOk \in BOOLEAN :
          Launch(taskSettled(processingQueue, e.rejected), {e}, buildOk)
    /\ lastDrain' = Resumed(e, processingQueue)
    /\ lastH' = NoStep
    /\ UNCHANGED enqueued
    /\ UNCHANGED <<events, pendingVad, applied, unhandled>>
    /\ UNCHANGED segmenterVars
    /\ UNCHANGED wsSendThrows
    /\ UNCHANGED releaseVars
    /\ UNCHANGED intakeVars
    /\ UNCHANGED <<authVars, gatewayVars>>

\* The transport stops taking packets: from here on ws.send throws
SendStartsThrowing ==
    /\ ~wsSendThrows
    /\ wsSendThrows' = TRUE
    /\ NoLaunch
    /\ lastH' = NoStep
    /\ lastDrain' = NoDrain
    /\ UNCHANGED <<events, pendingVad, applied, unhandled>>
    /\ UNCHANGED releaseVars
    /\ UNCHANGED intakeVars
    /\ UNCHANGED segmenterVars
    /\ UNCHANGED <<authVars, gatewayVars>>

ImageChatEventAny == \E voiceId \in VoiceIds : ImageChatEvent(voiceId)

AudioEventAny == \E size \in AudioSizes : AudioEvent(size)

VadResolvedAny == \E batch \in pendingVad, voice \in BOOLEAN : VadResolved(batch, voice)

VadRejectedAny == \E batch \in pendingVad : VadRejected(batch)

StartSettledAny == \E e \in inflight, ok \in BOOLEAN : StartSettled(e, ok)

StreamSettledAny ==
    \E e \in inflight, outcome \in {"ok", "error", "noText"} : StreamSettled(e, outcome)

DrainContinueAny == \E e \in inflight : DrainContinue(e)

\* A handler constructed for an admitted connection of a server that has
\* finished starting; nothing in the handler reads the credentials
InitHandler ==
    /\ InitAdmission
    /\ env = Creds
    /\ vadClient = TRUE
    /\ sttGraph = TRUE

\* Segmenter runs: audio and audioSessionEnd events against a pipeline that
\* has not answered yet, so that every emitted segment stays in the queue
NextSegmenter ==
    \/ AudioEventAny
    \/ AudioSessionEndEvent
    \/ VadResolvedAny
    \/ VadRejectedAny

SpecSegmenter == InitHandler /\ [][NextSegmenter]_vars

\* Queue runs: text and imageChat events and the progress of their tasks
NextQueue ==
    \/ TextEvent
    \/ ImageChatEventAny
    \/ StartSettledAny
    \/ StreamSettledAny
    \/ DrainContinueAny
    \/ SendStartsThrowing

SpecQueue == InitHandler /\ [][NextQueue]_vars

\* Queue runs over a transport that takes every packet, in which every await
\* resumes: the start call and the output stream of a started task settle,
\* and the drain loop, suspended on `await task()`, resumes once the task
\* has settled
NextFairQueue ==
    \/ TextEvent
    \/ ImageChatEvent(DEFAULT_VOICE_ID)
    \/ StartSettledAny
    \/ StreamSettledAny
    \/ DrainContinueAny

FairQueue ==
    /\ InitHandler
    /\ [][NextFairQueue]_vars
    /\ WF_vars(StartSettledAny)
    /\ WF_vars(StreamSettledAny)
    /\ WF_vars(DrainContinueAny)

----------------------------------------------------------------------------
(* The checks of verifyIncomingRequest, each stated on its own for a       *)
(* request and a clock reading t                                           *)

Malformed(req) ==
    \/ req.header.scheme # SCHEME
    \/ req.header.ApiKey = ""
    \/ req.header.DateTime.kind = "missing"
    \/ req.header.Nonce = ""
    \/ req.header.Signature = NoSignature

NotConfigured == ~env.configured

KeyMismatch(req) == req.header.ApiKey # env.apiKey

SkewMs(req, t) == Abs(t - req.header.DateTime.utc)

SkewTooLarge(req, t) ==
    \/ req.header.DateTime.kind # "utc14"
    \/ SkewMs(req, t) > NONCE_TTL_MS

BadSignature(req) ==
    req.header.Signature #
        ClientSignature(req.header.DateTime, req.host, req.header.Nonce, env.apiSecret)

\* The call passed the parse, credentials, ApiKey and skew checks
ReachedNonceCheck(call) ==
    /\ call.called
    /\ ~Malformed(call.req)
    /\ ~NotConfigured
    /\ ~KeyMismatch(call.req)
    /\ ~SkewTooLarge(call.req, call.at)

\* The acceptances of nonce n that precede the call in `last`
PriorAccepts(n) ==
    IF last.called /\ last.ok /\ last.req.header.Nonce = n
      THEN SubSeq(acceptLog[n], 1, Len(acceptLog[n]) - 1)
      ELSE acceptLog[n]

----------------------------------------------------------------------------
(* C1: however far the clock advances, the identical signed request (same  *)
(* ApiKey, DateTime, nonce, signature and host) for which verify has       *)
(* returned ok is never accepted a second time.  Two accepted requests     *)
(* with the same nonce and the same DateTime are the same request: the     *)
(* signature that verifies is a function of DateTime, host and nonce.      *)
C1_IdenticalRequestNeverAcceptedTwice ==
    \A n \in Nonces : \A i, j \in DOMAIN acceptLog[n] :
        i # j => acceptLog[n][i].dateTime # acceptLog[n][j].dateTime

\* The general statement of C1: no nonce is accepted twice
NonceAcceptedAtMostOnce ==
    \A n \in Nonces : Len(acceptLog[n]) <= 1

(* C2: a nonce accepted at time t is in the nonce cache, with t as its     *)
(* record, at every clock reading t' with t' - t <= 5 minutes, and every   *)
(* verify call that reaches the nonce check with it at such a t' returns   *)
(* 'Nonce replayed'.                                                       *)
C2_NonceHeldForReplayWindow ==
    /\ \A n \in Nonces : \A i \in DOMAIN acceptLog[n] :
          now - acceptLog[n][i].at <= NONCE_TTL_MS =>
              /\ n \in DOMAIN nonceTimestamps
              /\ nonceTimestamps[n] = acceptLog[n][i].at
    /\ ReachedNonceCheck(last) =>
          LET prior == PriorAccepts(last.req.header.Nonce)
          IN  (\E i \in DOMAIN prior : last.at - prior[i].at <= NONCE_TTL_MS)
                  => (~last.ok /\ last.error = "Nonce replayed")

\* A replay exactly 5 minutes after the acceptance has been rejected
C2_Witness ==
    /\ ReachedNonceCheck(last)
    /\ last.error = "Nonce replayed"
    /\ \E i \in DOMAIN acceptLog[last.req.header.Nonce] :
          last.at - acceptLog[last.req.header.Nonce][i].at = NONCE_TTL_MS

(* C3: a nonce enters the cache only by a verify call that passed every    *)
(* check and returned ok, and such a call has recorded its nonce, with the *)
(* current time, when it returns; a call that returns an error adds none.  *)
C3_NonceCommittedOnlyOnSuccess ==
    /\ \A n \in DOMAIN nonceTimestamps :
          \E i \in DOMAIN acceptLog[n] : acceptLog[n][i].at = nonceTimestamps[n]
    /\ (last.called /\ last.ok) =>
          /\ ReachedNonceCheck(last)
          /\ ~BadSignature(last.req)
          /\ last.req.header.Nonce \in DOMAIN nonceTimestamps
          /\ nonceTimestamps[last.req.header.Nonce] = last.at
    /\ (last.called /\ ~last.ok) =>
          \A n \in DOMAIN nonceTimestamps : nonceTimestamps[n] < last.at
             \/ \E i \in DOMAIN acceptLog[n] : acceptLog[n][i].at = last.at

\* A request with a fresh nonce and a wrong signature was refused and its
\* nonce is not in the cache
C3_Witness ==
    /\ ReachedNonceCheck(last)
    /\ last.error = "Signature mismatch"
    /\ last.req.header.Nonce \notin DOMAIN nonceTimestamps

(* C4: verify returns the error of the earliest failing check in the order *)
(* parse, credentials configured, ApiKey, DateTime skew, nonce not         *)
(* replayed, signature; it returns ok when no check fails.                 *)
CheckError ==
    <<"Missing or invalid Authorization", "Server not configured for client auth",
      "ApiKey mismatch", "DateTime skew too large", "Nonce replayed",
      "Signature mismatch">>

\* A record of nonce n no older than the window at time t, by the history
Replayed(n, t) ==
    \E i \in DOMAIN acceptLog[n] : t - acceptLog[n][i].at <= NONCE_TTL_MS

CheckFails(i, req) ==
    CASE i = 1 -> Malformed(req)
      [] i = 2 -> NotConfigured
      [] i = 3 -> KeyMismatch(req)
      [] i = 4 -> SkewTooLarge(req, now)
      [] i = 5 -> req.header.Nonce \in Nonces /\ Replayed(req.header.Nonce, now)
      [] i = 6 -> BadSignature(req)

FailingChecks(req) == {i \in DOMAIN CheckError : CheckFails(i, req)}

EarliestError(req) ==
    IF FailingChecks(req) = {} THEN ""
    ELSE CheckError[CHOOSE i \in FailingChecks(req) :
                        \A j \in FailingChecks(req) : i <= j]

C4_EarliestFailingCheckReported ==
    [][last'.called =>
          /\ last'.error = EarliestError(last'.req)
          /\ last'.ok <=> FailingChecks(last'.req) = {}]_vars

\* A request with a replayed nonce and a wrong signature got 'Nonce replayed'
C4_Witness ==
    /\ ReachedNonceCheck(last)
    /\ BadSignature(last.req)
    /\ \E i \in DOMAIN acceptLog[last.req.header.Nonce] :
          last.at - acceptLog[last.req.header.Nonce][i].at <= NONCE_TTL_MS
    /\ last.error = "Nonce replayed"

(* C5: for a request that parses, with credentials configured and a        *)
(* matching ApiKey, verify returns 'DateTime skew too large' exactly when  *)
(* the claimed DateTime differs from server time by more than 5 minutes,   *)
(* in the past or in the future, whatever the nonce and the signature.     *)
C5_SkewErrorIffOutsideWindow ==
    (/\ last.called
     /\ ~Malformed(last.req)
     /\ ~NotConfigured
     /\ ~KeyMismatch(last.req)
     /\ last.req.header.DateTime.kind = "utc14") =>
        (last.error = "DateTime skew too large"
            <=> SkewMs(last.req, last.at) > NONCE_TTL_MS)

\* A future-dated request beyond the window was refused although its signature
\* is the right one
C5_Witness ==
    /\ last.called
    /\ last.error = "DateTime skew too large"
    /\ last.req.header.DateTime.kind = "utc14"
    /\ last.req.header.DateTime.utc - last.at > NONCE_TTL_MS
    /\ ~BadSignature(last.req)

Expired(n) ==
    n \in DOMAIN nonceTimestamps /\ now - nonceTimestamps[n] > NONCE_TTL_MS

(* C6, as claimed: every nonce record older than the 5-minute window is    *)
(* eventually evicted from the cache, in every execution.                  *)
C6_ExpiredRecordEventuallyEvicted ==
    \A n \in Nonces : Expired(n) ~> ~Expired(n)

(* C6, amended: the cache is swept only inside a verify call that has      *)
(* passed the parse, credentials, ApiKey and skew checks; when such a call *)
(* returns, no record older than the window is left in the cache.          *)
C6_NoExpiredRecordAfterNonceCheck ==
    ReachedNonceCheck(last) =>
        \A n \in DOMAIN nonceTimestamps : last.at - nonceTimestamps[n] <= NONCE_TTL_MS

\* A call carrying one nonce has evicted the expired record of the other
C6_Witness ==
    /\ ReachedNonceCheck(last)
    /\ \E n \in Nonces \ {last.req.header.Nonce} :
          /\ n \notin DOMAIN nonceTimestamps
          /\ \E i \in DOMAIN acceptLog[n] : last.at - acceptLog[n][i].at > NONCE_TTL_MS

----------------------------------------------------------------------------
(* Upgrade admission *)

\* The condition of a redemption, on the record the handler looked up: a
\* record exists for the key, holds this token, and has not expired at `at`
\* (strictly before expiresAt, or up to and including expiresAt)
RedeemableBefore(up) ==
    /\ up.key # NoValue /\ up.token # NoValue
    /\ up.record.found
    /\ up.record.token = up.token
    /\ up.at < up.record.expiresAt

RedeemableUntil(up) ==
    /\ up.key # NoValue /\ up.token # NoValue
    /\ up.record.found
    /\ up.record.token = up.token
    /\ up.at <= up.record.expiresAt

OnWs(up) == up.called /\ up.path = "/ws"

(* C7: a wsToken is redeemed at most once: no two admissions through the   *)
(* token path carry the same token, and an upgrade carrying a token that   *)
(* was redeemed before is not admitted through the token path, although    *)
(* the token is unchanged and unexpired.                                   *)
C7_TokenRedeemedAtMostOnce ==
    /\ \A i, j \in DOMAIN redemptions :
          redemptions[i].token = redemptions[j].token => i = j
    /\ \A i \in DOMAIN redemptions :
          redemptions[i].key \notin DOMAIN wsTokens
             \/ wsTokens[redemptions[i].key].token # redemptions[i].token

\* A second upgrade with the redeemed, still unexpired token was refused
C7_Witness ==
    /\ OnWs(lastUp)
    /\ ~lastUp.allowed
    /\ lastUp.response = "401"
    /\ \E i \in DOMAIN redemptions :
          /\ redemptions[i].key = lastUp.key
          /\ redemptions[i].token = lastUp.token
          /\ lastUp.at < redemptions[i].expiresAt

(* C8, as claimed: a redemption succeeds only if a record exists for the   *)
(* key, its token equals the supplied one, and now < expiresAt strictly.   *)
C8_RedeemedOnlyBeforeExpiresAt ==
    (OnWs(lastUp) /\ lastUp.allowed) => RedeemableBefore(lastUp)

(* C8, amended: a redemption succeeds exactly when a record exists for the *)
(* key, its token equals the supplied one, and now <= expiresAt, where     *)
(* expiresAt is the issue time plus 5 minutes: at now = expiresAt it still *)
(* succeeds, later it fails.                                               *)
C8_RedeemedIffNotAfterExpiresAt ==
    /\ OnWs(lastUp) => (lastUp.allowed <=> RedeemableUntil(lastUp))
    /\ \A k \in DOMAIN wsTokens :
          /\ wsTokens[k].expiresAt <= now + WS_TOKEN_TTL_MS
          /\ wsTokens[k].expiresAt >= WS_TOKEN_TTL_MS

\* A token was redeemed at the very millisecond it expires
C8_Witness ==
    /\ OnWs(lastUp)
    /\ lastUp.allowed
    /\ lastUp.record.found
    /\ lastUp.at = lastUp.record.expiresAt

\* A token presented after expiresAt was refused
C8_WitnessExpired ==
    /\ OnWs(lastUp)
    /\ ~lastUp.allowed
    /\ lastUp.record.found
    /\ lastUp.record.token = lastUp.token
    /\ lastUp.at > lastUp.record.expiresAt

(* C9: an upgrade on /ws reaches the 'connection' handler exactly when the *)
(* token was redeemed or, failing that, verifyIncomingRequest returned ok  *)
(* on the same request; otherwise the socket gets a 401 and is destroyed,  *)
(* handleUpgrade is not called, and no socket, handler or binding appears. *)
C9_ConnectionIffAdmitted ==
    [][OnWs(lastUp') =>
          LET up == lastUp'
              redeemed == /\ up.key # NoValue /\ up.token # NoValue
                          /\ up.key \in DOMAIN wsTokens
                          /\ wsTokens[up.key].token = up.token
                          /\ now <= wsTokens[up.key].expiresAt
              verifiedOk == /\ ~redeemed
                            /\ last'.called /\ last'.req = up.req /\ last'.ok
              connected == Len(sockets') = Len(sockets) + 1
          IN  /\ connected <=> (redeemed \/ verifiedOk)
              /\ redeemed => ~last'.called
              /\ connected =>
                    /\ up.response = "101" /\ ~up.destroyed /\ up.ws = Len(sockets')
                    /\ sockets'[up.ws].handler <=> up.key # NoValue
              /\ ~connected =>
                    /\ up.response = "401" /\ up.destroyed /\ up.ws = NoValue
                    /\ sockets' = sockets
                    /\ connections' = connections]_vars

\* A token that no longer redeems, with no valid Authorization: a 401
C9_WitnessDenied ==
    /\ OnWs(lastUp)
    /\ lastUp.token # NoValue /\ ~lastUp.allowed
    /\ last.called /\ ~last.ok
    /\ lastUp.response = "401"

\* A token that no longer redeems, with a valid Authorization: admitted
C9_Witness ==
    /\ OnWs(lastUp)
    /\ lastUp.token # NoValue /\ ~lastUp.allowed
    /\ last.called /\ last.ok
    /\ lastUp.response = "101"
    /\ sockets[lastUp.ws].handler

(* C10: when a second transport is admitted for a key that is already      *)
(* bound, the first no longer feeds events for that key to a handler: a    *)
(* message is handled only for the transport admitted last for its key.    *)
C10_SupersededTransportFeedsNoEvents ==
    lastMsg.called =>
        ~\E ws \in DOMAIN sockets :
            /\ ws > lastMsg.ws
            /\ sockets[ws].key = lastMsg.key
            /\ sockets[ws].handler

\* The statement of C10 on the registry: at most one open transport with a
\* handler per key
OneConnectionPerKey ==
    \A w1, w2 \in DOMAIN sockets :
        (/\ sockets[w1].key = sockets[w2].key
         /\ sockets[w1].open /\ sockets[w1].handler
         /\ sockets[w2].open /\ sockets[w2].handler) => w1 = w2

----------------------------------------------------------------------------
(* The task queue of one MessageHandler *)

IsPrefix(a, b) == Len(a) <= Len(b) /\ SubSeq(b, 1, Len(a)) = a

Occurrences(seq, x) == Cardinality({i \in DOMAIN seq : seq[i] = x})

(* C11: over any interleaving of addToQueue calls and task completions at  *)
(* most one queued task is in flight at any instant (a task is called only *)
(* after the drain loop has resumed from the one before), and tasks are    *)
(* started in exactly the order in which they were passed to addToQueue.   *)
C11_OneTaskAtATimeInArrivalOrder ==
    /\ Cardinality(inflight) <= 1
    /\ IsPrefix(started, enqueued)
    /\ \A id \in 1 .. events : Occurrences(started, id) <= 1

\* T2 and T3 were enqueued while T1 ran; T1 has settled, T2 has just been
\* started and T3 waits
C11_Witness ==
    /\ lastDrain.called
    /\ lastStart.called
    /\ Len(started) = 2
    /\ Len(enqueued) = 3
    /\ Len(processingQueue) = 1

(* C12: a queued task that rejects does not stop the drain loop: the loop  *)
(* resumed from a rejected task calls the next queued task, or, with the   *)
(* queue empty, clears isProcessing; no task waits in the queue with no    *)
(* drain active, and the flag is clear whenever no task is in flight, so   *)
(* that the next addToQueue starts a drain.                                *)
C12_RejectedTaskDoesNotStopDrain ==
    /\ (lastDrain.called /\ lastDrain.entry.rejected) =>
          IF lastDrain.queue = <<>>
            THEN ~isProcessing /\ inflight = {}
            ELSE /\ isProcessing
                 /\ lastStart.called
                 /\ lastStart.task = Head(lastDrain.queue)
                 /\ processingQueue = Tail(lastDrain.queue)
    /\ processingQueue # <<>> => (isProcessing /\ inflight # {})
    /\ inflight = {} => ~isProcessing

\* The task queued behind a task that rejected has been started
C12_Witness ==
    /\ lastDrain.called
    /\ lastDrain.entry.rejected
    /\ lastStart.called
    /\ lastStart.task.id > lastDrain.entry.task.id

\* A task enqueued after the drain that ended with a rejected task was started
\* at once
C12_WitnessNewDrain ==
    /\ lastH.op = "text"
    /\ lastStart.called
    /\ lastStart.task.id = lastH.id
    /\ \E f \in failures : f.where = "start" /\ f.id < lastH.id
    /\ sent = <<>>

(* C13: every failure inside a queued unit of work, a failure of the       *)
(* pipeline's start call and a failure while reading its output stream     *)
(* included, is reported to the client as an 'error' event carrying the    *)
(* interactionId of the event that triggered the task.                     *)
C13_EveryTaskFailureReportedToClient ==
    \A f \in failures : \E i \in DOMAIN sent : sent[i] = Event("error", f.id)

----------------------------------------------------------------------------
(* The segmenter of one MessageHandler *)

\* The step classified a no-voice batch while capturing and took the
\* accumulated pause over the threshold
PauseCrossed(h) ==
    /\ h.op = "vad"
    /\ h.before.isCapturingSpeech
    /\ ~h.voice
    /\ h.before.pauseDuration + DurationMs(h.batch.size) > PAUSE_DURATION_THRESHOLD_MS

\* The step started a capture
CaptureStarted(h) == h.op = "vad" /\ ~h.before.isCapturingSpeech /\ h.voice

(* C14: from Idle, voice-present batches of more than 200 ms in total      *)
(* followed by no-voice batches until the accumulated pause exceeds 650 ms *)
(* enqueue exactly one audio task, and its segment has as many samples as  *)
(* all batches buffered since capture started, voice and no-voice.         *)
C14_SegmentCarriesAllBufferedBatches ==
    (PauseCrossed(lastH) /\ DurationMs(fedVoice) > MIN_SPEECH_DURATION_MS) =>
        /\ Len(lastH.tasks) = 1
        /\ lastH.tasks[1].kind = "audio"
        /\ lastH.tasks[1].id = lastH.id
        /\ Samples(lastH.tasks[1].audio) = fed
        /\ Occurrences(enqueued, lastH.id) = 1
        /\ enqueued[Len(enqueued)] = lastH.id

\* 256 ms of voice, then a pause accumulated over two no-voice batches
C14_Witness ==
    /\ PauseCrossed(lastH)
    /\ DurationMs(fedVoice) > MIN_SPEECH_DURATION_MS
    /\ lastH.before.pauseDuration > 0
    /\ Len(lastH.tasks) = 1
    /\ Samples(lastH.tasks[1].audio) = fed

(* C15: from Idle, voice-present batches of less than 200 ms in total      *)
(* followed by no-voice batches until the accumulated pause exceeds 650 ms *)
(* emit no segment: the buffer is discarded, no audio task is enqueued and *)
(* the state is Idle again.                                                *)
C15_ShortSpeechDiscarded ==
    (PauseCrossed(lastH) /\ DurationMs(fedVoice) < MIN_SPEECH_DURATION_MS) =>
        /\ lastH.tasks = <<>>
        /\ Occurrences(enqueued, lastH.id) = 0
        /\ ~isCapturingSpeech
        /\ speechBuffer = <<>>

(* C16: an audioSessionEnd event with a non-empty speech buffer enqueues   *)
(* exactly one audio task carrying the whole buffer, whatever its          *)
(* duration; with an empty buffer it enqueues nothing; either way it       *)
(* leaves the segmenter Idle with an empty buffer and a zero pause.        *)
C16_SessionEndFlushesWholeBuffer ==
    lastH.op = "audioSessionEnd" =>
        /\ ~isCapturingSpeech
        /\ pauseDuration = 0
        /\ speechBuffer = <<>>
        /\ IF lastH.before.speechBuffer # <<>>
             THEN /\ lastH.tasks = <<Task(lastH.id, "audio", NoVoiceId,
                                          lastH.before.speechBuffer)>>
                  /\ Occurrences(enqueued, lastH.id) = 1
             ELSE /\ lastH.tasks = <<>>
                  /\ Occurrences(enqueued, lastH.id) = 0

\* A buffer of 128 ms, below the minimum speech duration, was flushed
C16_Witness ==
    /\ lastH.op = "audioSessionEnd"
    /\ lastH.before.isCapturingSpeech
    /\ DurationMs(Samples(lastH.before.speechBuffer)) < MIN_SPEECH_DURATION_MS
    /\ Len(lastH.tasks) = 1
    /\ speechBuffer = <<>>

\* An audioSessionEnd with nothing buffered enqueued nothing
C16_WitnessEmpty ==
    /\ lastH.op = "audioSessionEnd"
    /\ lastH.before.speechBuffer = <<>>
    /\ enqueued # <<>>
    /\ Occurrences(enqueued, lastH.id) = 0

\* The batches of the segments emitted so far and of the buffer; in a
\* segmenter run every emitted segment is still queued or in flight
RECURSIVE BatchIds(_)
BatchIds(buf) == IF buf = <<>> THEN <<>> ELSE <<Head(buf).id>> \o BatchIds(Tail(buf))

RECURSIVE QueuedBatchIds(_)
QueuedBatchIds(queue) ==
    IF queue = <<>> THEN <<>>
    ELSE BatchIds(Head(queue).audio) \o QueuedBatchIds(Tail(queue))

RECURSIVE InflightBatchIds(_)
InflightBatchIds(entries) ==
    IF entries = {} THEN <<>>
    ELSE LET e == CHOOSE x \in entries : TRUE
         IN  BatchIds(e.task.audio) \o InflightBatchIds(entries \ {e})

AllBatchIds ==
    InflightBatchIds(inflight) \o QueuedBatchIds(processingQueue) \o BatchIds(speechBuffer)

SegmentEnded(h) == PauseCrossed(h) \/ h.op = "audioSessionEnd"

(* C17, as claimed: immediately after each emitted or discarded segment    *)
(* and after an audioSessionEnd, isCapturingSpeech is false, pauseDuration *)
(* is 0 and speechBuffer is empty.                                         *)
C17_SegmenterFullyReset ==
    SegmentEnded(lastH) =>
        /\ ~isCapturingSpeech
        /\ pauseDuration = 0
        /\ speechBuffer = <<>>

(* C17, amended: immediately after each emitted segment and after an       *)
(* audioSessionEnd, isCapturingSpeech is false and speechBuffer is empty,  *)
(* and no batch is in two segments.  pauseDuration is 0 after an           *)
(* audioSessionEnd; after a segment emitted on a pause it keeps the        *)
(* accumulated pause, which the start of the next capture resets to 0.     *)
C17_BufferResetPauseKeptUntilNextCapture ==
    /\ SegmentEnded(lastH) => (~isCapturingSpeech /\ speechBuffer = <<>>)
    /\ lastH.op = "audioSessionEnd" => pauseDuration = 0
    /\ PauseCrossed(lastH) =>
          pauseDuration = lastH.before.pauseDuration + DurationMs(lastH.batch.size)
    /\ CaptureStarted(lastH) =>
          (isCapturingSpeech /\ pauseDuration = 0 /\ speechBuffer = <<lastH.batch>>)
    /\ ~isCapturingSpeech => speechBuffer = <<>>
    /\ \A i, j \in DOMAIN AllBatchIds : AllBatchIds[i] = AllBatchIds[j] => i = j

\* A capture has started after a segment was emitted on a pause: the stale
\* pause is gone and the buffer holds the new batch only
C17_Witness ==
    /\ CaptureStarted(lastH)
    /\ lastH.before.pauseDuration > PAUSE_DURATION_THRESHOLD_MS
    /\ Len(enqueued) = 1
    /\ speechBuffer = <<lastH.batch>>
    /\ pauseDuration = 0

(* C18: inbound events of one connection take effect strictly in arrival   *)
(* order, also when an audio event's voice-activity classification is      *)
(* still pending when the next event arrives.                              *)
C18_EventsTakeEffectInArrivalOrder ==
    \A i, j \in DOMAIN applied : i < j => applied[i] < applied[j]

(* C19: an imageChat task whose voice (a missing voiceId being the default *)
(* voice) is the voice of the current executor runs on that executor, with *)
(* no rebuild; the first task, or a task with another voice, tears the old *)
(* executor down and builds a new one before the request is started; the   *)
(* recorded voiceId is always the voice of the executor that exists.       *)
C19_ExecutorReusedIffSameVoice ==
    /\ (lastStart.called /\ lastStart.task.kind = "imageChat") =>
          LET voice == IF lastStart.task.voiceId = NoVoiceId
                         THEN DEFAULT_VOICE_ID ELSE lastStart.task.voiceId
              reuse == /\ lastStart.executorBefore # NoExecutor
                       /\ lastStart.voiceBefore = voice
          IN  /\ reuse =>
                    /\ imageChatExecutor = lastStart.executorBefore
                    /\ lastStart.entry.phase = "start"
                    /\ lastStart.entry.on = lastStart.executorBefore.id
              /\ ~reuse =>
                    /\ lastStart.executorBefore # NoExecutor =>
                          lastStart.executorBefore.id \in tornDown
                    /\ \/ /\ imageChatExecutor = NoExecutor
                          /\ lastStart.entry.phase = "settled"
                       \/ /\ imageChatExecutor = Executor(builds, voice)
                          /\ imageChatExecutor.id > lastStart.executorBefore.id
                          /\ lastStart.entry.phase = "start"
                          /\ lastStart.entry.on = imageChatExecutor.id
    /\ imageChatExecutor # NoExecutor =>
          /\ imageChatCurrentVoiceId = imageChatExecutor.voice
          /\ imageChatExecutor.id \notin tornDown
    /\ \A e \in inflight :
          (e.task.kind = "imageChat" /\ e.phase # "settled") =>
              /\ e.on = imageChatExecutor.id
              /\ imageChatExecutor.voice =
                    (IF e.task.voiceId = NoVoiceId THEN DEFAULT_VOICE_ID
                     ELSE e.task.voiceId)

\* A task with no voiceId has reused the executor built for the default voice
C19_Witness ==
    /\ lastStart.called
    /\ lastStart.task.kind = "imageChat"
    /\ lastStart.task.voiceId = NoVoiceId
    /\ lastStart.executorBefore # NoExecutor
    /\ lastStart.voiceBefore = DEFAULT_VOICE_ID
    /\ imageChatExecutor = lastStart.executorBefore
    /\ builds = 1

\* A task with another voice has replaced the executor
C19_WitnessRebuilt ==
    /\ lastStart.called
    /\ lastStart.task.kind = "imageChat"
    /\ lastStart.executorBefore # NoExecutor
    /\ lastStart.voiceBefore # lastStart.voiceId
    /\ imageChatExecutor.id = 2
    /\ tornDown = {1}

(* C20: a failure of the voice-activity classifier while an audio event is *)
(* handled is caught inside the handler: the handleMessage call does not   *)
(* reject and the speech buffer is reset to empty.                         *)
C20_ClassifierFailureCaughtInHandler ==
    /\ unhandled = {}
    /\ lastH.op = "vadRejected" => speechBuffer = <<>>

----------------------------------------------------------------------------
(* Executions, their release and the events they end with *)

\* The task with this id was called by a drain loop and has left
\* executeGraph or executeImageChat
Exited(id) ==
    /\ Occurrences(started, id) > 0
    /\ ~\E e \in inflight : e.task.id = id /\ e.phase \in {"start", "stream"}

(* C21: closeExecution is called at most once per execution, and exactly   *)
(* once for every execution whose executor.start resolved and whose task   *)
(* has exited, whether the task completed, failed to read the output       *)
(* stream or failed to send to the client.                                 *)
C21_StartedExecutionClosedExactlyOnce ==
    \A id \in 1..events :
        /\ Occurrences(closedExecutions, id) <= 1
        /\ (id \in executions /\ Exited(id)) =>
               Occurrences(closedExecutions, id) = 1

(* C22: for every task the queue started and that has exited, exactly one  *)
(* interactionEnd event with the task's interactionId was sent, after      *)
(* every other event of that interactionId, on success and on every        *)
(* failure path, a failed start call included.                             *)
C22_OneInteractionEndAfterAllEvents ==
    \A id \in 1..events :
        Exited(id) =>
            /\ Occurrences(sent, Event("interactionEnd", id)) = 1
            /\ \A i, j \in DOMAIN sent :
                  (sent[i] = Event("interactionEnd", id)
                      /\ sent[j].interactionId = id) => j <= i

(* C23: the samples of audio events that have not been given to the        *)
(* classifier are always fewer than FRAME_PER_BUFFER: samples of a short   *)
(* event wait for the next batch, none is dropped.                         *)
C23_ShortAudioEventsAccumulated ==
    received - classified < FRAME_PER_BUFFER

\* The executions of one pipeline in flight: begun and not yet out of the
\* finally block
InFlight(image) ==
    {e \in inflight :
        /\ (e.task.kind = "imageChat") = image
        /\ e.phase \in {"start", "stream"}}

(* C24: in every state STT_ACTIVE_EXECUTIONS and                           *)
(* IMAGECHAT_ACTIVE_EXECUTIONS equal the number of executions of their     *)
(* pipeline in flight, so both are 0 when no task is executing.            *)
C24_CountersEqualExecutionsInFlight ==
    /\ STT_ACTIVE_EXECUTIONS = Cardinality(InFlight(FALSE))
    /\ IMAGECHAT_ACTIVE_EXECUTIONS = Cardinality(InFlight(TRUE))

----------------------------------------------------------------------------
(* The queue loses no task *)

(* C27: whenever processingQueue is non-empty a drain is active; no task   *)
(* is started twice; and, when every started task settles, every task     *)
(* passed to addToQueue is eventually started, also one passed while the   *)
(* drain loop is between two tasks.                                        *)
C27_EveryEnqueuedTaskStartedOnce ==
    /\ [](processingQueue # <<>> => isProcessing)
    /\ [](\A id \in 1..MaxTaskEvents : Occurrences(started, id) <= 1)
    /\ \A id \in 1..MaxTaskEvents :
          (Occurrences(enqueued, id) = 1) ~> (Occurrences(started, id) = 1)

\* addToQueue was called while the task in flight had settled and the drain
\* loop had not yet resumed: the new task waits in the queue
C27_Witness ==
    /\ lastH.op \in {"text", "imageChat"}
    /\ ~lastStart.called
    /\ \E e \in inflight : e.phase = "settled"
    /\ processingQueue # <<>>
    /\ processingQueue[Len(processingQueue)].id = lastH.id

\* The drain loop, resumed, started a task that had been waiting in the queue
C27_WitnessStartedFromQueue ==
    /\ lastDrain.called
    /\ lastStart.called
    /\ lastDrain.queue # <<>>
    /\ lastStart.task = Head(lastDrain.queue)

----------------------------------------------------------------------------
(* The connection registry and server start-up *)

\* The transport bound last for its key
BoundLast(w) ==
    /\ sockets[w].handler
    /\ ~\E v \in DOMAIN sockets :
          v > w /\ sockets[v].key = sockets[w].key /\ sockets[v].handler

(* C25: while a transport admitted for a key is open and is the transport  *)
(* bound last for that key, connections[key].ws refers to it: the 'close'  *)
(* event of an older transport of the key leaves the binding alone.        *)
C25_NewestTransportStaysBound ==
    \A w \in DOMAIN sockets :
        (sockets[w].open /\ BoundLast(w)) =>
            /\ sockets[w].key \in DOMAIN connections
            /\ connections[sockets[w].key].ws = w

(* C26: every MessageHandler is constructed with the sttGraph and the      *)
(* vadClient that the listen callback has assigned, however the upgrade    *)
(* requests interleave with server start-up.                               *)
C26_HandlerBuiltWithInitializedPipeline ==
    \A i \in DOMAIN handlers : handlers[i].sttGraph /\ handlers[i].vadClient

====
